---- MODULE Spec2Model ----
(***************************************************************************)
(* A model of the forwarding / tunnelling proxy of src/main.py.            *)
(*                                                                         *)
(* Byte strings are modelled as sequences of tokens.  A token is a string  *)
(* standing for a run of bytes that the program never looks inside (a      *)
(* word such as "GET" or "example.com") or for one separator the program   *)
(* does look for (" ", ":", "//", "?", "#", "\r\n").  Every string         *)
(* operation of the source (strip, split, upper, lower, startswith,        *)
(* urlsplit, urlunsplit) is computed on the token sequence the way Python  *)
(* computes it on the characters.                                          *)
(*                                                                         *)
(* A connection is "open", "lost" (the peer reset it or an I/O error tore  *)
(* it down: asyncio stores the exception on the reader and drain() raises  *)
(* ConnectionResetError) or "closed" (the proxy called writer.close()).    *)
(***************************************************************************)
EXTENDS Integers, Sequences, FiniteSets, TLC

\* ------------------------------------------------------------------ bounds
\* bytes each peer may send after the request head
MaxData == 3
\* reader.read(4096), scaled to the payloads of the model
ChunkSize == 2

\* ----------------------------------------------------------- token strings
CRLF == "\r\n"
SP == " "
Whitespace == {" ", "\t", "\r\n", "\n", "\r"}

\* str.strip(): leading and trailing whitespace removed
RECURSIVE LStrip(_)
LStrip(s) ==
  IF s # <<>> /\ Head(s) \in Whitespace THEN LStrip(Tail(s)) ELSE s

RECURSIVE RStrip(_)
RStrip(s) ==
  IF s # <<>> /\ s[Len(s)] \in Whitespace
  THEN RStrip(SubSeq(s, 1, Len(s) - 1)) ELSE s

Strip(s) == RStrip(LStrip(s))

\* str.find(sep): index of the first token equal to sep, 0 when absent
Find(s, sep) ==
  IF \E i \in 1..Len(s) : s[i] = sep
  THEN CHOOSE i \in 1..Len(s) : s[i] = sep /\ \A j \in 1..(i - 1) : s[j] # sep
  ELSE 0

\* str.split(sep, maxsplit): the list of fields, cut at the first maxsplit
\* occurrences of sep; empty fields are kept
RECURSIVE Split(_, _, _)
Split(s, sep, maxsplit) ==
  LET i == Find(s, sep) IN
  IF maxsplit = 0 \/ i = 0 THEN <<s>>
  ELSE <<SubSeq(s, 1, i - 1)>> \o Split(SubSeq(s, i + 1, Len(s)), sep, maxsplit - 1)

\* str.upper() on the tokens the model uses
UpperTok(t) ==
  CASE t \in {"connect", "Connect", "CONNECT"} -> "CONNECT"
    [] t \in {"get", "GET"} -> "GET"
    [] OTHER -> t

Upper(s) == [i \in 1..Len(s) |-> UpperTok(s[i])]

\* bytes.lower() on the tokens the model uses
LowerTok(t) ==
  CASE t \in {"Proxy-Connection", "PROXY-CONNECTION", "proxy-connection"}
         -> "proxy-connection"
    [] t \in {"Host", "host"} -> "host"
    [] t \in {"X-Proxy-Connection", "x-proxy-connection"} -> "x-proxy-connection"
    [] OTHER -> t

Lower(s) == [i \in 1..Len(s) |-> LowerTok(s[i])]

\* bytes.startswith(prefix)
StartsWith(s, prefix) ==
  Len(s) >= Len(prefix) /\ SubSeq(s, 1, Len(prefix)) = prefix

\* int(text): the tokens Python parses as an integer
DigitToks == {"0", "80", "443", "8080", "99999"}
IsInt(s) == Len(s) = 1 /\ s[1] \in DigitToks

IntOf(t) ==
  CASE t = "0" -> 0 [] t = "80" -> 80 [] t = "443" -> 443
    [] t = "8080" -> 8080 [] t = "99999" -> 99999

\* ------------------------------------------------ urllib.parse on tokens
\* tokens made only of scheme characters (letters, digits, "+", "-", ".")
\* that start with a letter
AlphaWordToks == {"http", "example.com", "h", "abc"}
SchemeCharToks == AlphaWordToks \cup DigitToks
\* the tokens that end a netloc: they start with "/", "?" or "#"
NetlocEndToks == {"/", "/foo", "?", "#"}

\* the index of the first token of s, from position from on, that is in set;
\* Len(s) + 1 when there is none
RECURSIVE FirstIn(_, _, _)
FirstIn(s, set, from) ==
  IF from > Len(s) THEN Len(s) + 1
  ELSE IF s[from] \in set THEN from
  ELSE FirstIn(s, set, from + 1)

\* urlsplit, step 1: "<scheme>:" is cut off when everything before the first
\* ":" is scheme characters and the url starts with a letter
SchemeSplit(url) ==
  LET i == Find(url, ":") IN
  IF i > 1 /\ url[1] \in AlphaWordToks
       /\ \A j \in 1..(i - 1) : url[j] \in SchemeCharToks
  THEN [scheme |-> SubSeq(url, 1, i - 1), rest |-> SubSeq(url, i + 1, Len(url))]
  ELSE [scheme |-> <<>>, rest |-> url]

\* urlsplit, step 2: after "//" the netloc runs to the first "/", "?" or "#"
NetlocSplit(url) ==
  IF url # <<>> /\ url[1] = "//"
  THEN LET d == FirstIn(url, NetlocEndToks, 2) IN
       [netloc |-> SubSeq(url, 2, d - 1), rest |-> SubSeq(url, d, Len(url))]
  ELSE [netloc |-> <<>>, rest |-> url]

\* urlsplit, steps 3 and 4: the fragment after the first "#", then the query
\* after the first "?"
FragmentSplit(url) ==
  LET i == Find(url, "#") IN
  IF i > 0
  THEN [rest |-> SubSeq(url, 1, i - 1), fragment |-> SubSeq(url, i + 1, Len(url))]
  ELSE [rest |-> url, fragment |-> <<>>]

QuerySplit(url) ==
  LET i == Find(url, "?") IN
  IF i > 0
  THEN [path |-> SubSeq(url, 1, i - 1), query |-> SubSeq(url, i + 1, Len(url))]
  ELSE [path |-> url, query |-> <<>>]

urlsplit(url) ==
  LET a == SchemeSplit(url)
      b == NetlocSplit(a.rest)
      c == FragmentSplit(b.rest)
      d == QuerySplit(c.rest)
  IN [scheme |-> a.scheme, netloc |-> b.netloc, path |-> d.path,
      query |-> d.query, fragment |-> c.fragment]

\* SplitResult.hostname: the netloc before its first ":", lower-cased;
\* None (modelled as the empty string) when it is empty
hostname(u) ==
  LET i == Find(u.netloc, ":") IN
  IF i = 0 THEN Lower(u.netloc) ELSE Lower(SubSeq(u.netloc, 1, i - 1))

\* the text of the netloc after its first ":" (empty when there is none)
PortText(u) ==
  LET i == Find(u.netloc, ":") IN
  IF i = 0 THEN <<>> ELSE SubSeq(u.netloc, i + 1, Len(u.netloc))

\* SplitResult.port raises ValueError for a port that is not all digits or is
\* outside 0..65535
PortRaises(u) ==
  LET p == PortText(u) IN
  p # <<>> /\ (~IsInt(p) \/ IntOf(p[1]) > 65535)

\* url.port or 80: no port, an empty port and port 0 all give 80
PortOr80(u) ==
  LET p == PortText(u) IN
  IF p = <<>> \/ IntOf(p[1]) = 0 THEN 80 ELSE IntOf(p[1])

\* urlunsplit(('', '', url.path or '/', url.query, ''))
relative_path(u) ==
  LET path == IF u.path = <<>> THEN <<"/">> ELSE u.path IN
  IF u.query # <<>> THEN path \o <<"?">> \o u.query ELSE path

\* ------------------------------------------------------- what clients send
Sessions == {"s1", "s2"}
Conn == {"client", "remote"}
Dir == {"up", "down"}

\* pipe(client_reader, remote_writer) is "up", pipe(remote_reader,
\* client_writer) is "down"
Src(d) == IF d = "up" THEN "client" ELSE "remote"
Dst(d) == IF d = "up" THEN "remote" ELSE "client"

AbsUrl == <<"http", ":", "//", "example.com", "/foo", "?", "x=1">>
BareUrl == <<"http", ":", "//", "h">>
PortUrl == <<"http", ":", "//", "h", ":", "8080", "/foo">>
BadPortUrl == <<"http", ":", "//", "h", ":", "abc", "/">>
RelUrl == <<"/foo">>
Authority == <<"example.com", ":", "443">>
NoPortAuthority == <<"example.com">>
BadPortAuthority == <<"h", ":", "abc">>

Line(m, target, v) == <<m, SP>> \o target \o <<SP, v, CRLF>>

\* request lines with three fields
GoodLines ==
  { Line("GET", AbsUrl, "HTTP/1.1"), Line("GET", BareUrl, "HTTP/1.0"),
    Line("get", PortUrl, "HTTP/1.1"), Line("GET", RelUrl, "HTTP/1.1"),
    Line("GET", BadPortUrl, "HTTP/1.1"),
    Line("CONNECT", Authority, "HTTP/1.1"), Line("connect", Authority, "HTTP/1.0"),
    Line("CONNECT", NoPortAuthority, "HTTP/1.1"),
    Line("CONNECT", BadPortAuthority, "HTTP/1.1") }

\* request lines that split(' ', 2) does not cut into three fields, or cuts
\* differently from a split on runs of whitespace
OddLines ==
  { <<"GET", SP, "/foo", CRLF>>, <<CRLF>>,
    <<"GET", "\t">> \o AbsUrl \o <<"\t", "HTTP/1.1", CRLF>>,
    <<"GET", SP, SP>> \o AbsUrl \o <<SP, "HTTP/1.1", CRLF>> }

HostHeader == <<"Host", ":", " example.com", CRLF>>
ProxyConn == <<"Proxy-Connection", ":", " keep-alive", CRLF>>
ProxyConnUpper == <<"PROXY-CONNECTION", ":", " close", CRLF>>
ProxyConnLower == <<"proxy-connection", ":", " keep-alive", CRLF>>
XProxyConn == <<"X-Proxy-Connection", ":", " 1", CRLF>>

\* a line that is empty but for a bare line feed
BareLF == <<"\n">>

HeaderBlocks ==
  { <<>>, <<HostHeader>>, <<HostHeader, ProxyConn>>,
    <<ProxyConnUpper, HostHeader, ProxyConnLower>>, <<XProxyConn, ProxyConn>>,
    <<HostHeader, BareLF, ProxyConn>> }

\* a client that sends nothing at all
NoInput == [line |-> <<>>, headers |-> <<>>, terminated |-> FALSE]

\* what one client sends ahead of any payload: the request line, the header
\* lines and, when terminated, the blank line
Inputs ==
  { [line |-> l, headers |-> h, terminated |-> t] :
      l \in GoodLines \cup OddLines, h \in HeaderBlocks, t \in BOOLEAN }
  \cup {NoInput}

HeadLines(i) ==
  IF i.line = <<>> THEN <<>>
  ELSE <<i.line>> \o i.headers \o (IF i.terminated THEN <<<<CRLF>>>> ELSE <<>>)

\* the k-th payload byte the peer of connection c of session s sends: every
\* peer sends bytes of its own
Payload(s, c) ==
  IF s = "s1"
  THEN IF c = "client" THEN <<"c1", "c2", "c3", "c4">> ELSE <<"r1", "r2", "r3", "r4">>
  ELSE IF c = "client" THEN <<"C1", "C2", "C3", "C4">> ELSE <<"R1", "R2", "R3", "R4">>
Byte(s, c, k) == Payload(s, c)[k]

\* ------------------------------------------------------------------- state
VARIABLES
  conns,     \* the connections start_server accepts in this run
  input,     \* what each client sends ahead of its payload
  pc,        \* where handle_client stands
  lines,     \* client_reader: the unread lines of the request head
  method, path, version, headers, host, port,    \* locals of handle_client
  st,        \* st[s][c]: "none", "open", "lost" or "closed"
  eof,       \* eof[s][c]: the peer ended its stream (feed_eof)
  buf,       \* buf[s][c]: payload received and not yet read
  sent,      \* sent[s][c]: payload bytes the peer has sent
  out,       \* out[s][c]: everything passed to the writer's write()
  ppc,       \* ppc[s][d]: where pipe d stands
  prd, pwr,  \* what pipe d has read from its reader, written to its writer
  attempts,  \* calls of asyncio.open_connection
  outcome    \* the first fault handle_client met, "" when none

locals == <<method, path, version, headers, host, port>>
streams == <<eof, buf, sent>>
pipes == <<ppc, prd, pwr>>
vars == <<conns, input, pc, lines, locals, st, streams, out, pipes, attempts,
          outcome>>

InitWith(cs, ins) ==
  /\ conns = cs
  /\ input \in [Sessions -> ins]
  /\ \A s \in Sessions \ cs : input[s] = NoInput
  /\ pc = [s \in Sessions |-> "request_line"]
  /\ lines = [s \in Sessions |-> HeadLines(input[s])]
  /\ method = [s \in Sessions |-> <<>>]
  /\ path = [s \in Sessions |-> <<>>]
  /\ version = [s \in Sessions |-> <<>>]
  /\ headers = [s \in Sessions |-> <<>>]
  /\ host = [s \in Sessions |-> <<>>]
  /\ port = [s \in Sessions |-> 0]
  /\ st = [s \in Sessions |-> [c \in Conn |-> IF c = "client" THEN "open" ELSE "none"]]
  /\ eof = [s \in Sessions |-> [c \in Conn |-> FALSE]]
  /\ buf = [s \in Sessions |-> [c \in Conn |-> <<>>]]
  /\ sent = [s \in Sessions |-> [c \in Conn |-> 0]]
  /\ out = [s \in Sessions |-> [c \in Conn |-> <<>>]]
  /\ ppc = [s \in Sessions |-> [d \in Dir |-> "idle"]]
  /\ prd = [s \in Sessions |-> [d \in Dir |-> <<>>]]
  /\ pwr = [s \in Sessions |-> [d \in Dir |-> <<>>]]
  /\ attempts = [s \in Sessions |-> 0]
  /\ outcome = [s \in Sessions |-> ""]

Init == InitWith({"s1"}, Inputs)

\* ------------------------------------------------------ stream primitives
\* reader.read()/readline() raise the stored exception of a lost connection
ReadRaises(s, c) == st[s][c] = "lost"
\* a faulty variant: closing a connection does not end its reader's stream
AtEofPeerOnly(s, c) == eof[s][c]
\* the reader is at end-of-stream: the peer ended its stream, or the proxy
\* closed the connection (connection_lost(None) feeds eof)
AtEof(s, c) == eof[s][c] \/ st[s][c] = "closed"
\* writer.drain() raises ConnectionResetError once the connection is gone
DrainRaises(s, c) == st[s][c] # "open"

\* writer.close(): closing a connection that is not open changes nothing
Closed(state, s, c) ==
  [state EXCEPT ![s][c] = IF @ = "open" THEN "closed" ELSE @]

\* writer.write(data)
Written(o, s, c, data) == [o EXCEPT ![s][c] = @ \o data]

\* ------------------------------------------------------- what is written
\* a faulty variant: the version of the response is fixed instead of the request's
EstablishedFixedVersion(v) ==
  <<"HTTP/1.1", SP, "200", SP, "Connection established", CRLF, CRLF>>

Established(v) == v \o <<SP, "200", SP, "Connection established", CRLF, CRLF>>
BadGateway(v) == v \o <<SP, "502", SP, "Bad Gateway", CRLF, CRLF>>
ConnectionClose == <<"Connection", ":", " close", CRLF, CRLF>>

\* method.upper() == 'CONNECT'
IsConnect(m) == Upper(m) = <<"CONNECT">>

\* a faulty variant: the header name is compared without lower()
IsProxyConnectionExact(header) ==
  StartsWith(header, <<"Proxy-Connection", ":">>)

\* header.lower().startswith(b"proxy-connection:")
IsProxyConnection(header) ==
  StartsWith(Lower(header), <<"proxy-connection", ":">>)

\* the loop of lines 55-58: the bytes of the headers that are forwarded
RECURSIVE ForwardedHeaders(_)
ForwardedHeaders(hs) ==
  IF hs = <<>> THEN <<>>
  ELSE IF IsProxyConnection(Head(hs)) THEN ForwardedHeaders(Tail(hs))
  ELSE Head(hs) \o ForwardedHeaders(Tail(hs))

\* lines 51-60: everything written to remote_writer before the drain
ForwardedRequest(m, p, v, hs) ==
  m \o <<SP>> \o relative_path(urlsplit(p)) \o <<SP>> \o v \o <<CRLF>>
    \o ForwardedHeaders(hs) \o ConnectionClose

\* ----------------------------------------------------------- handle_client
\* an exception leaves handle_client: nothing after the raising statement
\* runs, line 72 included
Raise(s, why) ==
  /\ pc' = [pc EXCEPT ![s] = "raised"]
  /\ outcome' = [outcome EXCEPT ![s] = IF @ = "" THEN why ELSE @]

\* a faulty variant: the handler returns on an empty request line without the close
NoRequestUnclosed(s) ==
  /\ pc' = [pc EXCEPT ![s] = "done"]
  /\ outcome' = [outcome EXCEPT ![s] = "no_request"]
  /\ UNCHANGED st

\* lines 8-10: readline returned b'': the client is closed and the handler
\* returns
NoRequest(s) ==
  /\ st' = Closed(st, s, "client")
  /\ pc' = [pc EXCEPT ![s] = "done"]
  /\ outcome' = [outcome EXCEPT ![s] = "no_request"]

\* a faulty variant: the request line is upper-cased before it is split
RequestFieldsUpper(line) == Split(Upper(Strip(line)), SP, 2)

\* line 12: request_line.decode().strip().split(' ', 2)
RequestFields(line) == Split(Strip(line), SP, 2)

\* lines 7-12: the request line is read and split
ReadRequestLine(s) ==
  /\ s \in conns /\ pc[s] = "request_line"
  /\ \/ /\ ReadRaises(s, "client")
        /\ Raise(s, "read")
        /\ UNCHANGED <<lines, method, path, version, st>>
     \/ /\ ~ReadRaises(s, "client") /\ lines[s] # <<>>
        /\ lines' = [lines EXCEPT ![s] = Tail(@)]
        /\ LET fields == RequestFields(Head(lines[s])) IN
           IF Len(fields) = 3
           THEN /\ method' = [method EXCEPT ![s] = fields[1]]
                /\ path' = [path EXCEPT ![s] = fields[2]]
                /\ version' = [version EXCEPT ![s] = fields[3]]
                /\ pc' = [pc EXCEPT ![s] = "headers"]
                /\ UNCHANGED outcome
           ELSE /\ Raise(s, "request_line")
                /\ UNCHANGED <<method, path, version>>
        /\ UNCHANGED st
     \/ /\ ~ReadRaises(s, "client") /\ lines[s] = <<>> /\ AtEof(s, "client")
        /\ NoRequest(s)
        /\ UNCHANGED <<lines, method, path, version>>
  /\ UNCHANGED <<conns, input, headers, host, port, streams, out, pipes, attempts>>

\* a faulty variant: the header line is stripped before it is kept
ReadHeaderStripped(s) ==
  /\ s \in conns /\ pc[s] = "headers"
  /\ ~ReadRaises(s, "client")
  /\ lines[s] # <<>> /\ Head(lines[s]) # <<CRLF>>
  /\ headers' = [headers EXCEPT ![s] = Append(@, Strip(Head(lines[s])))]
  /\ lines' = [lines EXCEPT ![s] = Tail(@)]
  /\ UNCHANGED <<conns, input, pc, method, path, version, host, port, st,
                 streams, out, pipes, attempts, outcome>>

\* a faulty variant: headers is one list shared by every handler
ReadHeaderShared(s) ==
  /\ s \in conns /\ pc[s] = "headers"
  /\ ~ReadRaises(s, "client")
  /\ lines[s] # <<>> /\ Head(lines[s]) # <<CRLF>>
  /\ headers' = [t \in Sessions |-> Append(headers[t], Head(lines[s]))]
  /\ lines' = [lines EXCEPT ![s] = Tail(@)]
  /\ UNCHANGED <<conns, input, pc, method, path, version, host, port, st,
                 streams, out, pipes, attempts, outcome>>

\* lines 17-20: one more header line is read and kept
ReadHeader(s) ==
  /\ s \in conns /\ pc[s] = "headers"
  /\ ~ReadRaises(s, "client")
  /\ lines[s] # <<>> /\ Head(lines[s]) # <<CRLF>>
  /\ headers' = [headers EXCEPT ![s] = Append(@, Head(lines[s]))]
  /\ lines' = [lines EXCEPT ![s] = Tail(@)]
  /\ UNCHANGED <<conns, input, pc, method, path, version, host, port, st,
                 streams, out, pipes, attempts, outcome>>

\* line 17 raises: the connection was lost while the headers were read
ReadHeaderFails(s) ==
  /\ s \in conns /\ pc[s] = "headers"
  /\ ReadRaises(s, "client")
  /\ Raise(s, "read")
  /\ UNCHANGED <<conns, input, lines, locals, st, streams, out, pipes, attempts>>

\* lines 24-25: path.split(':', 1) and int(port), outside the try
ConnectTarget(p) ==
  LET parts == Split(p, ":", 1) IN
  IF Len(parts) = 2 /\ IsInt(parts[2])
  THEN [ok |-> TRUE, host |-> parts[1], port |-> IntOf(parts[2][1])]
  ELSE [ok |-> FALSE, host |-> <<>>, port |-> 0]

\* lines 43-45: urlsplit, url.hostname and url.port or 80, outside the try
ForwardTarget(p) ==
  LET url == urlsplit(p) IN
  IF PortRaises(url) THEN [ok |-> FALSE, host |-> <<>>, port |-> 0]
  ELSE [ok |-> TRUE, host |-> hostname(url), port |-> PortOr80(url)]

Target(m, p) == IF IsConnect(m) THEN ConnectTarget(p) ELSE ForwardTarget(p)

\* lines 17-19 and 23-25 or 43-45: the header block ends (blank line or
\* end-of-stream) and the target is worked out
EndOfHeaders(s) ==
  /\ s \in conns /\ pc[s] = "headers"
  /\ ~ReadRaises(s, "client")
  /\ \/ /\ lines[s] # <<>> /\ Head(lines[s]) = <<CRLF>>
        /\ lines' = [lines EXCEPT ![s] = Tail(@)]
     \/ /\ lines[s] = <<>> /\ AtEof(s, "client")
        /\ UNCHANGED lines
  /\ LET t == Target(method[s], path[s]) IN
     IF t.ok
     THEN /\ host' = [host EXCEPT ![s] = t.host]
          /\ port' = [port EXCEPT ![s] = t.port]
          /\ pc' = [pc EXCEPT ![s] = "open_connection"]
          /\ UNCHANGED outcome
     ELSE /\ Raise(s, "target")
          /\ UNCHANGED <<host, port>>
  /\ UNCHANGED <<conns, input, method, path, version, headers, st, streams,
                 out, pipes, attempts>>

\* a faulty variant: the pipes are started as tasks as soon as the connection
\* opens, before the handler has written and flushed its own bytes
OpenConnectionEarlyPipes(s) ==
  /\ s \in conns /\ pc[s] = "open_connection"
  /\ attempts' = [attempts EXCEPT ![s] = @ + 1]
  /\ st' = [st EXCEPT ![s]["remote"] = "open"]
  /\ ppc' = [ppc EXCEPT ![s] = [d \in Dir |-> "read"]]
  /\ IF IsConnect(method[s])
     THEN /\ out' = Written(out, s, "client", Established(version[s]))
          /\ pc' = [pc EXCEPT ![s] = "drain_200"]
     ELSE /\ out' = Written(out, s, "remote",
                      ForwardedRequest(method[s], path[s], version[s], headers[s]))
          /\ pc' = [pc EXCEPT ![s] = "drain_request"]
  /\ UNCHANGED <<conns, input, lines, locals, streams, prd, pwr, outcome>>

\* lines 27-29 and 48-60: the connection opens; the 200 response, or the
\* rewritten request, is written
\* (whether a connection opens is the network's choice for every host and
\* port; for host None, the target without hostname, getaddrinfo resolves
\* to the loopback interface)
OpenConnection(s) ==
  /\ s \in conns /\ pc[s] = "open_connection"
  /\ attempts' = [attempts EXCEPT ![s] = @ + 1]
  /\ st' = [st EXCEPT ![s]["remote"] = "open"]
  /\ IF IsConnect(method[s])
     THEN /\ out' = Written(out, s, "client", Established(version[s]))
          /\ pc' = [pc EXCEPT ![s] = "drain_200"]
     ELSE /\ out' = Written(out, s, "remote",
                      ForwardedRequest(method[s], path[s], version[s], headers[s]))
          /\ pc' = [pc EXCEPT ![s] = "drain_request"]
  /\ UNCHANGED <<conns, input, lines, locals, streams, pipes, outcome>>

\* lines 37-38 and 68-69: the except branch writes the 502 response
Respond502(s, why) ==
  /\ out' = Written(out, s, "client", BadGateway(version[s]))
  /\ pc' = [pc EXCEPT ![s] = "drain_502"]
  /\ outcome' = [outcome EXCEPT ![s] = why]

\* a faulty variant: a failed open_connection is tried once more before the 502
OpenConnectionRetries(s) ==
  /\ s \in conns /\ pc[s] = "open_connection"
  /\ attempts' = [attempts EXCEPT ![s] = @ + 1]
  /\ IF attempts[s] = 0
     THEN UNCHANGED <<out, pc, outcome>>
     ELSE Respond502(s, "connect")
  /\ UNCHANGED <<conns, input, lines, locals, st, streams, pipes>>

\* lines 27 and 48 raise: the connection does not open
OpenConnectionFails(s) ==
  /\ s \in conns /\ pc[s] = "open_connection"
  /\ attempts' = [attempts EXCEPT ![s] = @ + 1]
  /\ Respond502(s, "connect")
  /\ UNCHANGED <<conns, input, lines, locals, st, streams, pipes>>

\* asyncio.gather(pipe(...), pipe(...)): both pipes start
StartPipes(s) ==
  /\ ppc' = [ppc EXCEPT ![s] = [d \in Dir |-> "read"]]
  /\ pc' = [pc EXCEPT ![s] = "gather"]

\* lines 30-36 and 61-67: the drain returns and the relay starts, or the
\* drain raises and the except branch runs
Drain(s, at, c) ==
  /\ s \in conns /\ pc[s] = at
  /\ IF DrainRaises(s, c)
     THEN /\ Respond502(s, at)
          /\ UNCHANGED ppc
     ELSE /\ StartPipes(s)
          /\ UNCHANGED <<out, outcome>>
  /\ UNCHANGED <<conns, input, lines, locals, st, streams, prd, pwr, attempts>>

\* a faulty variant: the flush of the rewritten request is outside the try
DrainRequestUncaught(s) ==
  /\ s \in conns /\ pc[s] = "drain_request"
  /\ IF DrainRaises(s, "remote")
     THEN /\ Raise(s, "drain_request")
          /\ UNCHANGED ppc
     ELSE /\ StartPipes(s)
          /\ UNCHANGED outcome
  /\ UNCHANGED <<conns, input, lines, locals, st, streams, out, prd, pwr,
                 attempts>>

Drain200(s) == Drain(s, "drain_200", "client")
DrainRequest(s) == Drain(s, "drain_request", "remote")

\* lines 39 and 70, then 72: the 502 is flushed and the client closed, or
\* the drain raises out of the except branch
Drain502(s) ==
  /\ s \in conns /\ pc[s] = "drain_502"
  /\ IF DrainRaises(s, "client")
     THEN /\ pc' = [pc EXCEPT ![s] = "raised"]
          /\ UNCHANGED st
     ELSE /\ pc' = [pc EXCEPT ![s] = "done"]
          /\ st' = Closed(st, s, "client")
  /\ UNCHANGED <<conns, input, lines, locals, streams, out, pipes, attempts,
                 outcome>>

\* a faulty variant: the gather returns when the first pipe returns
JoinedAny(s) == \E d \in Dir : ppc[s][d] = "done"

\* gather returns once every pipe has returned
Joined(s) == \A d \in Dir : ppc[s][d] = "done"

\* lines 33-36 and 64-67, then 72: the gather returns and the client is closed
Gather(s) ==
  /\ s \in conns /\ pc[s] = "gather"
  /\ Joined(s)
  /\ pc' = [pc EXCEPT ![s] = "done"]
  /\ st' = Closed(st, s, "client")
  /\ UNCHANGED <<conns, input, lines, locals, streams, out, pipes, attempts,
                 outcome>>

\* -------------------------------------------------------------------- pipe
\* reader.read(4096): what is buffered, up to the chunk size
Chunk(b) == SubSeq(b, 1, IF Len(b) < ChunkSize THEN Len(b) ELSE ChunkSize)

\* a faulty variant: the pipe returns without closing its writer
PipeReturnsUnclosed(s, d) ==
  /\ ppc' = [ppc EXCEPT ![s][d] = "done"]
  /\ UNCHANGED st

\* lines 84-87: the loop is left, by break or by an exception that is
\* swallowed, and the writer is closed
PipeReturns(s, d) ==
  /\ ppc' = [ppc EXCEPT ![s][d] = "done"]
  /\ st' = Closed(st, s, Dst(d))

\* a faulty variant: pipe has no except clause, so a read fault passes through
\* the gather into the except branch of handle_client
PipeReadUncaught(s, d) ==
  /\ s \in conns /\ ppc[s][d] = "read"
  /\ \/ /\ ReadRaises(s, Src(d))
        /\ PipeReturns(s, d)
        /\ IF pc[s] = "gather" THEN Respond502(s, "pipe")
           ELSE UNCHANGED <<pc, out, outcome>>
        /\ UNCHANGED <<buf, prd, pwr>>
     \/ /\ ~ReadRaises(s, Src(d)) /\ buf[s][Src(d)] # <<>>
        /\ LET data == Chunk(buf[s][Src(d)]) IN
           /\ buf' = [buf EXCEPT ![s][Src(d)] = SubSeq(@, Len(data) + 1, Len(@))]
           /\ out' = Written(out, s, Dst(d), data)
           /\ prd' = [prd EXCEPT ![s][d] = @ \o data]
           /\ pwr' = [pwr EXCEPT ![s][d] = @ \o data]
        /\ ppc' = [ppc EXCEPT ![s][d] = "drain"]
        /\ UNCHANGED <<st, pc, outcome>>
     \/ /\ ~ReadRaises(s, Src(d)) /\ buf[s][Src(d)] = <<>> /\ AtEof(s, Src(d))
        /\ PipeReturns(s, d)
        /\ UNCHANGED <<buf, out, prd, pwr, pc, outcome>>
  /\ UNCHANGED <<conns, input, lines, locals, eof, sent, attempts>>

\* a faulty variant: a read shorter than the chunk size is taken for the last one
PipeReadShortIsLast(s, d) ==
  /\ s \in conns /\ ppc[s][d] = "read"
  /\ \/ /\ ReadRaises(s, Src(d))
        /\ PipeReturns(s, d)
        /\ UNCHANGED <<buf, out, prd, pwr>>
     \/ /\ ~ReadRaises(s, Src(d)) /\ buf[s][Src(d)] # <<>>
        /\ LET data == Chunk(buf[s][Src(d)]) IN
           /\ buf' = [buf EXCEPT ![s][Src(d)] = SubSeq(@, Len(data) + 1, Len(@))]
           /\ out' = Written(out, s, Dst(d), data)
           /\ prd' = [prd EXCEPT ![s][d] = @ \o data]
           /\ pwr' = [pwr EXCEPT ![s][d] = @ \o data]
           /\ IF Len(data) < ChunkSize
              THEN PipeReturns(s, d)
              ELSE ppc' = [ppc EXCEPT ![s][d] = "drain"] /\ UNCHANGED st
     \/ /\ ~ReadRaises(s, Src(d)) /\ buf[s][Src(d)] = <<>> /\ AtEof(s, Src(d))
        /\ PipeReturns(s, d)
        /\ UNCHANGED <<buf, out, prd, pwr>>
  /\ UNCHANGED <<conns, input, pc, lines, locals, eof, sent, attempts, outcome>>

\* lines 79-82: a chunk is read and written, or the read ends the loop
PipeRead(s, d) ==
  /\ s \in conns /\ ppc[s][d] = "read"
  /\ \/ /\ ReadRaises(s, Src(d))
        /\ PipeReturns(s, d)
        /\ UNCHANGED <<buf, out, prd, pwr>>
     \/ /\ ~ReadRaises(s, Src(d)) /\ buf[s][Src(d)] # <<>>
        /\ LET data == Chunk(buf[s][Src(d)]) IN
           /\ buf' = [buf EXCEPT ![s][Src(d)] = SubSeq(@, Len(data) + 1, Len(@))]
           /\ out' = Written(out, s, Dst(d), data)
           /\ prd' = [prd EXCEPT ![s][d] = @ \o data]
           /\ pwr' = [pwr EXCEPT ![s][d] = @ \o data]
        /\ ppc' = [ppc EXCEPT ![s][d] = "drain"]
        /\ UNCHANGED st
     \/ /\ ~ReadRaises(s, Src(d)) /\ buf[s][Src(d)] = <<>> /\ AtEof(s, Src(d))
        /\ PipeReturns(s, d)
        /\ UNCHANGED <<buf, out, prd, pwr>>
  /\ UNCHANGED <<conns, input, pc, lines, locals, eof, sent, attempts, outcome>>

\* line 83: the drain returns and the loop goes on, or it raises
PipeDrain(s, d) ==
  /\ s \in conns /\ ppc[s][d] = "drain"
  /\ IF DrainRaises(s, Dst(d))
     THEN PipeReturns(s, d)
     ELSE /\ ppc' = [ppc EXCEPT ![s][d] = "read"]
          /\ UNCHANGED st
  /\ UNCHANGED <<conns, input, pc, lines, locals, streams, out, prd, pwr,
                 attempts, outcome>>

\* --------------------------------------------------------------- the peers
\* the peer of an open connection sends its next payload byte; a client
\* sends payload only behind a request head the proxy has read
PeerSends(s, c) ==
  /\ s \in conns /\ st[s][c] = "open" /\ ~eof[s][c]
  /\ sent[s][c] < MaxData
  /\ c = "client" => pc[s] \notin {"request_line", "headers"}
  /\ sent' = [sent EXCEPT ![s][c] = @ + 1]
  /\ buf' = [buf EXCEPT ![s][c] = Append(@, Byte(s, c, sent[s][c] + 1))]
  /\ UNCHANGED <<conns, input, pc, lines, locals, st, eof, out, pipes,
                 attempts, outcome>>

\* the peer ends its stream (a half-close): the reader is fed eof
PeerEnds(s, c) ==
  /\ s \in conns /\ st[s][c] = "open" /\ ~eof[s][c]
  /\ eof' = [eof EXCEPT ![s][c] = TRUE]
  /\ UNCHANGED <<conns, input, pc, lines, locals, st, buf, sent, out, pipes,
                 attempts, outcome>>

\* the peer resets the connection, or an I/O error tears it down
PeerResets(s, c) ==
  /\ s \in conns /\ st[s][c] = "open"
  /\ st' = [st EXCEPT ![s][c] = "lost"]
  /\ UNCHANGED <<conns, input, pc, lines, locals, streams, out, pipes,
                 attempts, outcome>>

\* ------------------------------------------------------- the specification
Next ==
  \E s \in Sessions :
    \/ ReadRequestLine(s)
    \/ ReadHeader(s)
    \/ ReadHeaderFails(s)
    \/ EndOfHeaders(s)
    \/ OpenConnection(s)
    \/ OpenConnectionFails(s)
    \/ Drain200(s)
    \/ DrainRequest(s)
    \/ Drain502(s)
    \/ Gather(s)
    \/ \E d \in Dir : PipeRead(s, d) \/ PipeDrain(s, d)
    \/ \E c \in Conn : PeerSends(s, c) \/ PeerEnds(s, c) \/ PeerResets(s, c)

Spec == Init /\ [][Next]_vars

\* --------------------------------------------- two connections at a time
\* payload bytes all peers together send while two sessions run
ConcData == 1

ConnectInput ==
  [line |-> Line("connect", Authority, "HTTP/1.0"), headers |-> <<HostHeader>>,
   terminated |-> TRUE]
ForwardInput ==
  [line |-> Line("GET", AbsUrl, "HTTP/1.1"), headers |-> <<XProxyConn, ProxyConn>>,
   terminated |-> TRUE]
TwoFieldInput ==
  [line |-> <<"GET", SP, "/foo", CRLF>>, headers |-> <<>>, terminated |-> TRUE]

\* start_server has accepted two connections: a CONNECT request on the
\* first, a plain request or a malformed one on the second
InitConc ==
  /\ InitWith(Sessions, {ConnectInput, ForwardInput, TwoFieldInput})
  /\ input["s1"] = ConnectInput
  /\ input["s2"] \in {ForwardInput, TwoFieldInput}

SentInAll(snt) == snt["s1"]["client"] + snt["s1"]["remote"]
                    + snt["s2"]["client"] + snt["s2"]["remote"]

NextConc == Next /\ SentInAll(sent') <= ConcData

SpecConc == InitConc /\ [][NextConc]_vars

\* ------------------------------------------------------ fair scheduling
\* one accepted connection carrying a CONNECT request or a plain request
InitFair == InitWith({"s1"}, {NoInput, ConnectInput, ForwardInput})

\* the event loop runs every task that is ready: each step of handle_client
\* and of its pipes is taken if it stays enabled; the peers promise nothing
Fairness ==
  \A s \in Sessions :
    /\ WF_vars(ReadRequestLine(s)) /\ WF_vars(ReadHeader(s))
    /\ WF_vars(ReadHeaderFails(s)) /\ WF_vars(EndOfHeaders(s))
    /\ WF_vars(OpenConnection(s)) /\ WF_vars(OpenConnectionFails(s))
    /\ WF_vars(Drain200(s)) /\ WF_vars(DrainRequest(s)) /\ WF_vars(Drain502(s))
    /\ WF_vars(Gather(s))
    /\ \A d \in Dir : WF_vars(PipeRead(s, d)) /\ WF_vars(PipeDrain(s, d))

SpecFair == InitFair /\ [][Next]_vars /\ Fairness

\* ------------------------------------------------------------------ claims
Finished(s) == pc[s] \in {"done", "raised"}
Relaying(s) == \E d \in Dir : ppc[s][d] # "idle"
IsPrefix(a, b) == Len(a) <= Len(b) /\ SubSeq(b, 1, Len(a)) = a

\* the three fields of a request line built by Line
SentMethod(s) == input[s].line[1]
SentTarget(s) == SubSeq(input[s].line, 3, Len(input[s].line) - 3)
SentVersion(s) == input[s].line[Len(input[s].line) - 1]
SentConnect(s) ==
  input[s].line \in GoodLines /\ SentMethod(s) \in {"CONNECT", "connect"}
SentForward(s) ==
  input[s].line \in GoodLines /\ SentMethod(s) \notin {"CONNECT", "connect"}

Status200(v) == v \o <<" ", "200", " ", "Connection established", "\r\n", "\r\n">>
Status502(v) == v \o <<" ", "502", " ", "Bad Gateway", "\r\n", "\r\n">>

\* C1: whenever handle_client has ended, by returning or by raising, the
\* client connection is no longer open
C1_ClientClosedAtEnd ==
  \A s \in conns : Finished(s) => st[s]["client"] # "open"

\* C2: once the outbound connection of a CONNECT request has opened, what has
\* been written to the client starts with "<version> 200 Connection
\* established" and a blank line; no pipe runs while that response is being
\* flushed, and all else written to the client is what the remote-to-client
\* pipe wrote after it
C2_EstablishedFirst ==
  \A s \in conns :
    SentConnect(s) /\ st[s]["remote"] # "none" =>
      /\ IsPrefix(Status200(<<SentVersion(s)>>), out[s]["client"])
      /\ pc[s] = "drain_200" => ~Relaying(s)
      /\ Relaying(s) =>
           out[s]["client"] = Status200(<<SentVersion(s)>>) \o pwr[s]["down"]

C2_Witness ==
  \E s \in conns : SentConnect(s) /\ Len(pwr[s]["down"]) >= 2

\* C3: after the outbound connection failed to open, the client has been
\* written exactly "<version> 502 Bad Gateway" and a blank line, no pipe has
\* started, one connection attempt was made, and when the handler has ended
\* the client connection is no longer open
C3_ConnectFailure ==
  \A s \in conns :
    outcome[s] = "connect" =>
      /\ out[s]["client"] = Status502(version[s])
      /\ ~Relaying(s)
      /\ attempts[s] = 1
      /\ st[s]["remote"] = "none" /\ out[s]["remote"] = <<>>
      /\ pc[s] \in {"drain_502", "done", "raised"}
      /\ Finished(s) => st[s]["client"] # "open"

C3_Witness ==
  \E s \in conns :
    /\ outcome[s] = "connect" /\ pc[s] = "done" /\ st[s]["client"] = "closed"
    /\ SentForward(s)

\* C4: a CONNECT request whose target is not host:port gets the 502 response
\* and its client connection closed, with no connection attempt
C4_InvalidConnectTarget ==
  \A s \in conns :
    /\ SentConnect(s)
    /\ SentTarget(s) \in {NoPortAuthority, BadPortAuthority}
    /\ Finished(s) /\ outcome[s] # "read"
    => /\ out[s]["client"] = Status502(<<SentVersion(s)>>)
       /\ st[s]["client"] # "open"
       /\ attempts[s] = 0

\* the relative request-target of each absolute target the clients send
SentRelative(s) ==
  CASE SentTarget(s) = AbsUrl -> <<"/foo", "?", "x=1">>
    [] SentTarget(s) = BareUrl -> <<"/">>
    [] SentTarget(s) = PortUrl -> <<"/foo">>
    [] SentTarget(s) = RelUrl -> <<"/foo">>
    [] OTHER -> <<"/">>

\* the sent header lines whose name is not Proxy-Connection in any case
ProxyConnectionNames == {"Proxy-Connection", "PROXY-CONNECTION", "proxy-connection"}
KeptHeaders(s) ==
  SelectSeq(input[s].headers, LAMBDA h : h[1] \notin ProxyConnectionNames)

RECURSIVE Concat(_)
Concat(ss) == IF ss = <<>> THEN <<>> ELSE Head(ss) \o Concat(Tail(ss))

SentRewritten(s) ==
  <<SentMethod(s), " ">> \o SentRelative(s) \o <<" ", SentVersion(s), "\r\n">>
    \o Concat(KeptHeaders(s)) \o <<"Connection", ":", " close", "\r\n", "\r\n">>

\* C5: once the outbound connection of a non-CONNECT request has opened, what
\* has been written to the remote is the rewritten request line, the sent
\* headers in order without the Proxy-Connection ones, "Connection: close"
\* and a blank line, followed only by what the client-to-remote pipe wrote
C5_ForwardedRequest ==
  \A s \in conns :
    SentForward(s) /\ st[s]["remote"] # "none" =>
      out[s]["remote"] = SentRewritten(s) \o pwr[s]["up"]

C5_Witness ==
  \E s \in conns :
    /\ SentForward(s) /\ pwr[s]["up"] # <<>>
    /\ input[s].headers = <<ProxyConnUpper, HostHeader, ProxyConnLower>>
    /\ SentTarget(s) = AbsUrl

\* C6: after the flush of the rewritten request failed, the client has been
\* written exactly the 502 response, no pipe has started, and when the
\* handler has ended the client connection is no longer open
C6_ForwardWriteFault ==
  \A s \in conns :
    outcome[s] = "drain_request" =>
      /\ out[s]["client"] = Status502(version[s])
      /\ ~Relaying(s)
      /\ pc[s] \in {"drain_502", "done", "raised"}
      /\ Finished(s) => st[s]["client"] # "open"

C6_Witness ==
  \E s \in conns :
    /\ outcome[s] = "drain_request" /\ pc[s] = "done"
    /\ st[s]["client"] = "closed" /\ st[s]["remote"] = "lost"

\* C7: a non-CONNECT request whose target has no hostname or an unparsable
\* port gets the 502 response, no relay, and its client connection closed
C7_InvalidForwardTarget ==
  \A s \in conns :
    /\ SentForward(s)
    /\ SentTarget(s) \in {RelUrl, BadPortUrl}
    /\ Finished(s) /\ outcome[s] # "read"
    => /\ out[s]["client"] = Status502(<<SentVersion(s)>>)
       /\ ~Relaying(s)
       /\ st[s]["client"] # "open"

\* C8: a client that ends its stream without sending a byte is written
\* nothing, causes no connection attempt, and has its connection closed when
\* the handler returns; the handler ends otherwise only on a reset connection
C8_NoRequest ==
  \A s \in conns :
    input[s] = NoInput =>
      /\ out[s]["client"] = <<>>
      /\ attempts[s] = 0 /\ st[s]["remote"] = "none"
      /\ pc[s] \in {"request_line", "done", "raised"}
      /\ pc[s] = "done" => st[s]["client"] = "closed" /\ eof[s]["client"]
      /\ pc[s] = "raised" => st[s]["client"] = "lost"

C8_Witness ==
  \E s \in conns :
    input[s] = NoInput /\ pc[s] = "done" /\ outcome[s] = "no_request"

\* C9: while either pipe of a session has not returned, the handler is still
\* at the gather: it reaches the final close only after both have returned
C9_JoinBoth ==
  \A s \in conns :
    /\ (\E d \in Dir : ppc[s][d] \in {"read", "drain"}) => pc[s] = "gather"
    /\ Relaying(s) /\ Finished(s) => \A d \in Dir : ppc[s][d] = "done"

C9_Witness ==
  \E s \in conns :
    /\ pc[s] = "gather"
    /\ ppc[s]["up"] = "done" /\ ppc[s]["down"] = "read"
    /\ st[s]["remote"] = "closed" /\ buf[s]["remote"] # <<>>

\* the first n payload bytes the peer of connection c sends
Stream(s, c, n) == [k \in 1..n |-> Payload(s, c)[k]]

\* the pipe left its loop on end-of-stream, with neither endpoint lost
CleanEnd(s, d) ==
  /\ ppc[s][d] = "done"
  /\ st[s][Src(d)] # "lost" /\ st[s][Dst(d)] # "lost"

\* C10: what a pipe has written is a prefix of what it has read, which is a
\* prefix of what the source's peer sent, in order; after a clean end the
\* pipe has written everything the peer sent
C10_PipeOrder ==
  \A s \in conns : \A d \in Dir :
    /\ IsPrefix(pwr[s][d], prd[s][d])
    /\ prd[s][d] \o buf[s][Src(d)] = Stream(s, Src(d), sent[s][Src(d)])
    /\ ppc[s][d] = "read" => pwr[s][d] = prd[s][d]
    /\ CleanEnd(s, d) => pwr[s][d] = Stream(s, Src(d), sent[s][Src(d)])

C10_Witness ==
  \E s \in conns : \E d \in Dir :
    CleanEnd(s, d) /\ eof[s][Src(d)] /\ Len(pwr[s][d]) = MaxData

\* everything of session s
Session(s) ==
  <<pc[s], lines[s], method[s], path[s], version[s], headers[s], host[s],
    port[s], st[s], eof[s], buf[s], sent[s], out[s], ppc[s], prd[s], pwr[s],
    attempts[s], outcome[s]>>

\* what the handler of session s may have written to its client ahead of
\* relayed bytes: nothing, or status lines with the version its client sent
OwnStatus(s) ==
  { <<>>, Status200(<<SentVersion(s)>>), Status502(<<SentVersion(s)>>),
    Status200(<<SentVersion(s)>>) \o Status502(<<SentVersion(s)>>) }

\* what the handler of session s may have written to its remote ahead of
\* relayed bytes: nothing, or the rewritten request of its own client
OwnRequest(s) ==
  IF SentForward(s) THEN {<<>>, SentRewritten(s)} ELSE {<<>>}

\* every byte written in session s comes from session s
OwnBytes(s) ==
  /\ \E h \in OwnStatus(s) : \E n \in 0..sent[s]["remote"] :
       out[s]["client"] = h \o Stream(s, "remote", n)
  /\ \E h \in OwnRequest(s) : \E n \in 0..sent[s]["client"] :
       out[s]["remote"] = h \o Stream(s, "client", n)

\* C11: with two sessions interleaved, all that is written to a session's
\* client or remote is its own status line, its own rewritten request and its
\* own peers' bytes, and no step changes the state of two sessions: a fault
\* or a close in one session leaves the other as it was
C11_Isolation ==
  /\ [](\A s \in conns : OwnBytes(s))
  /\ [][\A s \in Sessions : \A t \in Sessions \ {s} :
          Session(s)' # Session(s) => Session(t)' = Session(t)]_vars

C11_Witness ==
  /\ pc["s1"] = "gather" /\ out["s1"]["client"] = Status200(<<"HTTP/1.0">>) \o <<"r1">>
  /\ pc["s2"] = "raised" /\ st["s2"]["client"] = "lost"
  /\ out["s2"]["remote"] = SentRewritten("s2")

\* the request line of session s has been read
LineRead(s) == Len(lines[s]) < Len(HeadLines(input[s]))

\* the fields of a line: its maximal runs of tokens that are not whitespace
RECURSIVE Fields(_, _)
Fields(line, cur) ==
  IF line = <<>> THEN (IF cur = <<>> THEN <<>> ELSE <<cur>>)
  ELSE IF Head(line) \in {" ", "\t", "\r\n", "\n", "\r"}
       THEN (IF cur = <<>> THEN <<>> ELSE <<cur>>) \o Fields(Tail(line), <<>>)
       ELSE Fields(Tail(line), Append(cur, Head(line)))

\* the whitespace tokens between the first and the last field of a line
RECURSIVE Inner(_)
Inner(line) ==
  IF line = <<>> THEN <<>>
  ELSE IF Head(line) \in {" ", "\t", "\r\n", "\n", "\r"} THEN Inner(Tail(line))
  ELSE IF line[Len(line)] \in {" ", "\t", "\r\n", "\n", "\r"}
       THEN Inner(SubSeq(line, 1, Len(line) - 1))
  ELSE SelectSeq(line, LAMBDA t : t \in {" ", "\t", "\r\n", "\n", "\r"})

ParsedAs(s, f) == method[s] = f[1] /\ path[s] = f[2] /\ version[s] = f[3]

HeadersDone(s) ==
  \/ pc[s] \in {"open_connection", "drain_200", "drain_request", "drain_502", "gather"}
  \/ pc[s] = "done" /\ outcome[s] # "no_request"
  \/ pc[s] = "raised" /\ outcome[s] \notin {"read", "request_line"}

\* C13: the parsed headers are at all times the first lines the client sent
\* after the request line, unchanged and in order; they never hold the blank
\* "\r\n" line; once the header loop is left they are all the lines sent
\* before the blank line or the end of the stream
C13_HeaderSequence ==
  \A s \in conns :
    /\ IsPrefix(headers[s], input[s].headers)
    /\ \A i \in 1..Len(headers[s]) : headers[s][i] # <<"\r\n">>
    /\ HeadersDone(s) => headers[s] = input[s].headers

C13_Witness ==
  \E s \in conns :
    /\ HeadersDone(s) /\ ~input[s].terminated
    /\ headers[s] = <<ProxyConnUpper, HostHeader, ProxyConnLower>>

\* C14: a pipe that has returned, whether on end-of-stream, on a read fault
\* or on a write fault, has not left its writer's connection open
C14_PipeClosesWriter ==
  \A s \in conns : \A d \in Dir :
    ppc[s][d] = "done" => st[s][Dst(d)] # "open"

C14_Witness ==
  \E s \in conns :
    /\ ppc[s]["up"] = "done" /\ ppc[s]["down"] = "read"
    /\ st[s]["client"] = "lost" /\ st[s]["remote"] = "closed"

\* what handle_client itself writes to the client of a session that relays
HandlerPart(s) ==
  IF method[s] \in {<<"CONNECT">>, <<"connect">>}
  THEN version[s] \o <<" ", "200", " ", "Connection established", "\r\n", "\r\n">>
  ELSE <<>>

\* C15: once the pipes of a session have started, the handler is at the
\* gather or past the final close with no fault recorded, and the client has
\* been written nothing but what was written before the pipes started and
\* what the remote-to-client pipe relayed: no 502 follows a pipe's fault
C15_RelayFaultSilent ==
  \A s \in conns :
    Relaying(s) =>
      /\ pc[s] \in {"gather", "done"}
      /\ outcome[s] = ""
      /\ out[s]["client"] = HandlerPart(s) \o pwr[s]["down"]

C15_Witness ==
  \E s \in conns :
    /\ pc[s] = "done" /\ Relaying(s)
    /\ st[s]["remote"] = "lost" /\ st[s]["client"] = "closed"
    /\ pwr[s]["down"] # <<>>

C17_HalfCloseDrains ==
  \A s \in conns : \A d \in Dir :
    (CleanEnd(s, d) /\ eof[s][Src(d)]) =>
      (st[s][Dst(d)] = "open" \/ eof[s][Dst(d)])

\* the tasks that read a connection and those that write it, by where
\* handle_client and its pipes stand
Running(s, d) == ppc[s][d] \in {"read", "drain"}
HandlerReads(s, c) == c = "client" /\ pc[s] \in {"request_line", "headers"}
HandlerWrites(s, c) ==
  \/ c = "client"
     /\ pc[s] \in {"open_connection", "drain_200", "drain_request", "drain_502"}
  \/ c = "remote" /\ pc[s] \in {"open_connection", "drain_request"}
Readers(s, c) ==
  {t \in {"handler"} : HandlerReads(s, c)} \cup {d \in Dir : Running(s, d) /\ Src(d) = c}
Writers(s, c) ==
  {t \in {"handler"} : HandlerWrites(s, c)} \cup {d \in Dir : Running(s, d) /\ Dst(d) = c}

\* C18: a connection has at most one task reading it and at most one task
\* writing it; every write and every read is the step of that one task
C18_OneReaderOneWriter ==
  /\ [](\A s \in conns : \A c \in Conn :
          Cardinality(Readers(s, c)) <= 1 /\ Cardinality(Writers(s, c)) <= 1)
  /\ [][\A s \in conns : \A c \in Conn :
          /\ out'[s][c] # out[s][c] =>
               IF \E d \in Dir : pwr'[s][d] # pwr[s][d]
               THEN Writers(s, c) = {d \in Dir : pwr'[s][d] # pwr[s][d]}
               ELSE Writers(s, c) = {"handler"}
          /\ Len(buf'[s][c]) < Len(buf[s][c]) =>
               Readers(s, c) = {d \in Dir : prd'[s][d] # prd[s][d]}
          /\ lines'[s] # lines[s] => Readers(s, "client") = {"handler"}]_vars

C18_Witness ==
  \E s \in conns :
    /\ Writers(s, "client") = {"down"} /\ Writers(s, "remote") = {"up"}
    /\ Readers(s, "client") = {"up"} /\ Readers(s, "remote") = {"down"}
    /\ pwr[s]["up"] # <<>> /\ pwr[s]["down"] # <<>>
    /\ IsPrefix(Status200(version[s]), out[s]["client"])

\* C19: whenever handle_client has ended, by returning or by raising, the
\* outbound connection it opened is no longer open
C19_RemoteClosedAtEnd ==
  \A s \in conns : Finished(s) => st[s]["remote"] # "open"

\* the positions of the status codes in what was written to the client
StatusCodes(s) ==
  {i \in 1..Len(out[s]["client"]) : out[s]["client"][i] \in {"200", "502"}}

\* C20: at most one status line is written to the client of a connection
C20_OneStatusLine ==
  \A s \in conns : Cardinality(StatusCodes(s)) <= 1

====
